---- MODULE Spec2Model ----
(***************************************************************************)
(* Counting the distinct IPv6 addresses of a text file                     *)
(* (count_unique_ipv6.py): the in-memory engine, the partitioned engine    *)
(* with its process pool, and main's dispatch, temporary directory and     *)
(* output file.                                                            *)
(*                                                                         *)
(* Scale.  A line of text is a sequence of one-character strings.  An      *)
(* address has HEXTET_COUNT groups of at most HEXTET_DIGITS hexadecimal    *)
(* digits (IPv6: 8 groups of 4), the run has NUM_PARTITIONS partitions     *)
(* (the program: 4096) and flushes its buffers at CHUNK_WRITE_SIZE         *)
(* characters (the program: 8 MiB).  The stable hash of the program, the   *)
(* first 32 bits of MD5, is replaced by a 16-bit polynomial hash of the    *)
(* same canonical characters.                                              *)
(***************************************************************************)
EXTENDS Integers, Sequences, FiniteSets, TLC

\* ------------------------------------------------------------ bounds
MaxLines == 4
MaxWorkers == 2
HEXTET_COUNT == 2
HEXTET_DIGITS == 2
NUM_PARTITIONS == 2
CHUNK_WRITE_SIZE == 7
MEMORY_MODE_THRESHOLD == 12

\* ------------------------------------------------------------ text
LowerDigits == <<"0","1","2","3","4","5","6","7","8","9","a","b","c","d","e","f">>
UpperDigits == <<"0","1","2","3","4","5","6","7","8","9","A","B","C","D","E","F">>

HexChars == {LowerDigits[i] : i \in 1..16} \cup {UpperDigits[i] : i \in 1..16}

\* int(c, 16) for every hexadecimal digit.
HexTable ==
    [c \in HexChars |-> (CHOOSE i \in 1..16 : LowerDigits[i] = c \/ UpperDigits[i] = c) - 1]

IsHex(c) == c \in HexChars

HexVal(c) == HexTable[c]

\* Mutant of IsSpace: strip() takes nothing off.
NothingIsSpace(c) == FALSE

IsSpace(c) == c \in {" ", "\t", "\n", "\r"}

RECURSIVE LStrip(_)
LStrip(s) == IF s # <<>> /\ IsSpace(Head(s)) THEN LStrip(Tail(s)) ELSE s

RECURSIVE RStrip(_)
RStrip(s) ==
    IF s # <<>> /\ IsSpace(s[Len(s)]) THEN RStrip(SubSeq(s, 1, Len(s) - 1)) ELSE s

\* str.strip()
Strip(s) == RStrip(LStrip(s))

RECURSIVE Pow(_, _)
Pow(b, n) == IF n = 0 THEN 1 ELSE b * Pow(b, n - 1)

\* One more than the largest hextet.
HextetSpan == Pow(16, HEXTET_DIGITS)

\* str.split(':'): the parts between the colons, empty parts kept.
RECURSIVE SplitColon(_, _, _)
SplitColon(s, cur, acc) ==
    IF s = <<>> THEN Append(acc, cur)
    ELSE IF Head(s) = ":" THEN SplitColon(Tail(s), <<>>, Append(acc, cur))
    ELSE SplitColon(Tail(s), Append(cur, Head(s)), acc)

\* A hextet: 1..HEXTET_DIGITS hexadecimal digits in either case.
ValidHextet(h) ==
    /\ Len(h) >= 1
    /\ Len(h) <= HEXTET_DIGITS
    /\ \A i \in 1..Len(h) : IsHex(h[i])

RECURSIVE HextetInt(_, _)
HextetInt(h, acc) ==
    IF h = <<>> THEN acc ELSE HextetInt(Tail(h), acc * 16 + HexVal(Head(h)))

\* The index (from 0) of the empty inner part that stands for '::', -1 when there
\* is none, -2 when there are several.
SkipIndex(parts) ==
    LET inner == {i \in 2..(Len(parts) - 1) : parts[i] = <<>>}
    IN  IF inner = {} THEN -1
        ELSE IF Cardinality(inner) > 1 THEN -2
        ELSE (CHOOSE i \in inner : TRUE) - 1

\* The counts of hextets before and after '::' and the number of hextets it
\* stands for; ok is FALSE when the text is no address.
PartsLayout(parts) ==
    LET n == Len(parts)
        skip == SkipIndex(parts)
        hi0 == skip
        lo0 == n - skip - 1
        hi == IF parts[1] = <<>> THEN hi0 - 1 ELSE hi0
        lo == IF parts[n] = <<>> THEN lo0 - 1 ELSE lo0
    IN  IF n > HEXTET_COUNT + 1 \/ skip = -2 THEN [ok |-> FALSE, hi |-> 0, lo |-> 0, skipped |-> 0]
        ELSE IF skip >= 0 THEN
            [ok |-> /\ (parts[1] = <<>> => hi = 0)
                    /\ (parts[n] = <<>> => lo = 0)
                    /\ HEXTET_COUNT - (hi + lo) >= 1,
             hi |-> hi, lo |-> lo, skipped |-> HEXTET_COUNT - (hi + lo)]
        ELSE
            [ok |-> n = HEXTET_COUNT /\ parts[1] # <<>> /\ parts[n] # <<>>,
             hi |-> n, lo |-> 0, skipped |-> 0]

RECURSIVE FoldHextets(_, _, _, _)
FoldHextets(parts, from, to, acc) ==
    IF from > to THEN acc
    ELSE FoldHextets(parts, from + 1, to, acc * HextetSpan + HextetInt(parts[from], 0))

\* ipaddress.IPv6Address(text): the address as an integer, -1 when the text does
\* not parse (AddressValueError).
IPv6Address(text) ==
    LET parts == SplitColon(text, <<>>, <<>>)
        n == Len(parts)
        lay == PartsLayout(parts)
    IN  IF ~lay.ok THEN -1
        ELSE IF \E i \in (1..lay.hi) \cup ((n - lay.lo + 1)..n) : ~ValidHextet(parts[i]) THEN -1
        ELSE FoldHextets(parts, n - lay.lo + 1, n,
                 FoldHextets(parts, 1, lay.hi, 0) * Pow(HextetSpan, lay.skipped))

RECURSIVE HexDigitsOf(_, _)
HexDigitsOf(v, width) ==
    IF width = 0 THEN <<>>
    ELSE Append(HexDigitsOf(v \div 16, width - 1), LowerDigits[(v % 16) + 1])

\* IPv6Address.exploded: every hextet in full, lowercase, ':' between them.
RECURSIVE Exploded(_, _)
Exploded(ip, groups) ==
    IF groups = 1 THEN HexDigitsOf(ip % HextetSpan, HEXTET_DIGITS)
    ELSE Exploded(ip \div HextetSpan, groups - 1)
             \o <<":">> \o HexDigitsOf(ip % HextetSpan, HEXTET_DIGITS)

\* str.lower() on the characters of the model's alphabet.
LowerChar(c) ==
    IF \E i \in 1..16 : UpperDigits[i] = c
    THEN LowerDigits[CHOOSE i \in 1..16 : UpperDigits[i] = c]
    ELSE c

Lower(s) == [i \in 1..Len(s) |-> LowerChar(s[i])]

\* ------------------------------------------------------------ the lines
\* The text of an address written in full: first hextet hi, last hextet lo,
\* zero hextets between them.
RECURSIVE ZeroHextets(_)
ZeroHextets(n) == IF n <= 0 THEN <<>> ELSE <<"0", ":">> \o ZeroHextets(n - 1)

FullText(hi, lo) == hi \o <<":">> \o ZeroHextets(HEXTET_COUNT - 2) \o lo

\* Lines of an input file: a blank line, a line that is no address, one address
\* in two spellings (compressed upper case; full with a trailing blank), and two
\* more addresses.
Texts ==
    { <<" ">>,
      <<":", ":", "g">>,
      <<":", ":", "A">>,
      FullText(<<"0">>, <<"0", "a", " ">>),
      <<"1", ":", ":">>,
      FullText(<<"0", "1">>, <<"1">>) }

\* The lines of Texts as the engines pass them on, stripped.
StrippedTexts == {Strip(t) : t \in Texts}

\* ipaddress.IPv6Address(addr_str.strip()) returns.
Parses(addr_str) == IPv6Address(Strip(addr_str)) >= 0

\* addr.exploded.lower() of a text that parses.
CanonicalOf(addr_str) ==
    IF Parses(addr_str)
    THEN Lower(Exploded(IPv6Address(Strip(addr_str)), HEXTET_COUNT))
    ELSE <<>>

\* Parses and CanonicalOf of every line there is, worked out once.
ValidTable == [t \in StrippedTexts |-> Parses(t)]

CanonicalTable == [t \in StrippedTexts |-> CanonicalOf(t)]

\* Mutant of ipv6_to_canonical: the text as written, only stripped.
CanonicalAsWritten(addr_str) == Strip(addr_str)

\* The canonical form of a text that parses: addr.exploded.lower().
ipv6_to_canonical(addr_str) == CanonicalTable[addr_str]

\* Mutant of IsValid: a parser that raises on nothing.
AcceptsAnything(addr_str) == TRUE

IsValid(addr_str) == ValidTable[addr_str]

\* ------------------------------------------------------------ hashing
\* The code of a character of a canonical string (ord(c) of the program).
CharCode(c) ==
    IF c = ":" THEN 58
    ELSE IF HexVal(c) < 10 THEN 48 + HexVal(c) ELSE 87 + HexVal(c)

\* int(hashlib.md5(canonical.encode()).hexdigest()[:8], 16): a value of fixed
\* width (here 16 bits) that depends on the canonical characters alone.
HashSpan == Pow(2, 16)

RECURSIVE StableHash(_, _)
StableHash(s, acc) ==
    IF s = <<>> THEN acc
    ELSE StableHash(Tail(s), (acc * 31 + CharCode(Head(s))) % HashSpan)

\* The canonical strings the lines of Texts give.
CanonicalTexts == {ipv6_to_canonical(t) : t \in {x \in StrippedTexts : IsValid(x)}}

\* h % NUM_PARTITIONS of every canonical string there is, worked out once.
IndexTable == [c \in CanonicalTexts |-> StableHash(c, 7) % NUM_PARTITIONS]

\* idx = h % NUM_PARTITIONS
PartitionIndex(canonical) == IndexTable[canonical]

Parts == 0..(NUM_PARTITIONS - 1)

\* ------------------------------------------------------------ the engines
\* Mutant of count_unique_in_partition: the lines counted, not the distinct ones.
CountLines(lines) == Len(lines)

\* count_unique_in_partition: the distinct non-blank stripped lines of a file.
count_unique_in_partition(lines) ==
    Cardinality({Strip(lines[i]) : i \in 1..Len(lines)} \ {<<>>})

\* The loop of count_unique_basic from line i on: ok is FALSE when a line raises.
RECURSIVE BasicLoop(_, _, _)
BasicLoop(lines, i, unique) ==
    IF i > Len(lines) THEN [ok |-> TRUE, n |-> Cardinality(unique)]
    ELSE LET line == Strip(lines[i])
         IN  IF line = <<>> THEN BasicLoop(lines, i + 1, unique)
             ELSE IF ~IsValid(line) THEN [ok |-> FALSE, n |-> 0]
             ELSE BasicLoop(lines, i + 1, unique \cup {ipv6_to_canonical(line)})

count_unique_basic(lines) == BasicLoop(lines, 1, {})

\* os.path.getsize of a text file: its characters and one newline a line.
RECURSIVE FileSize(_)
FileSize(lines) ==
    IF lines = <<>> THEN 0 ELSE Len(Head(lines)) + 1 + FileSize(Tail(lines))

\* fh.writelines(buffer[i]) for every partition whose buffer is not empty.
WriteBuffers(files, buf) ==
    [p \in Parts |-> IF buf[p] # <<>> THEN files[p] \o buf[p] ELSE files[p]]

EmptyParts == [p \in Parts |-> <<>>]

\* Mutant of ResolveWorkers: available CPUs minus one, without the floor of 1.
ResolveWithoutFloor(workers, cpus) == IF workers # 0 THEN workers ELSE cpus - 1

\* num_workers or max(1, os.cpu_count() - 1)
ResolveWorkers(workers, cpus) ==
    IF workers # 0 THEN workers ELSE IF cpus - 1 > 1 THEN cpus - 1 ELSE 1

\* ------------------------------------------------------------ the inputs
\* The input files: up to MaxLines lines, each one of Texts.
Files == UNION {[1..n -> Texts] : n \in 0..MaxLines}

\* ------------------------------------------------------------ state
VARIABLES
    input_exists,   \* os.path.isfile(input_path)
    input,          \* the lines of the input file
    args,           \* the --basic and --optimized flags, until main has acted on them
    pc,             \* where main is
    engine,         \* the engine main called: "none", "basic", "optimized"
    exc,            \* the exception that is propagating, "none" without one
    count,          \* main's count, -1 while unset
    output,         \* what was written to the output file, <<>> while untouched
    tmpdir,         \* the temporary directory: "none", "exists", "removed"
    spill,          \* the lines of each partition file
    files_open,     \* the partition files are open for appending
    pos,            \* the input lines read so far
    buffer,         \* the lines buffered for each partition
    buffer_size,    \* the program's count of the buffered characters
    num_workers,    \* the pool's max_workers
    task,           \* each partition's future: none, queued, running, ok, failed
    result,         \* the value of each finished future
    yielded,        \* the futures as_completed has handed to the loop
    total,          \* the running total
    launched,       \* history: the times each partition file was submitted
    added,          \* history: the times each future's result was added to total
    placed,         \* history: every <<canonical, partition>> a line was buffered at
    earlier         \* the count of an earlier run on this input (and the files an
                    \* earlier call left in temp_dir), <<>> without one

vars == <<input_exists, input, args, pc, engine, exc, count, output, tmpdir, spill,
          files_open, pos, buffer, buffer_size, num_workers, task, result, yielded,
          total, launched, added, placed, earlier>>

main_vars == <<input_exists, input, earlier>>
part_vars == <<spill, files_open, pos, buffer, buffer_size, placed>>
pool_vars == <<task, result, yielded, total, launched, added>>

Init ==
    /\ input_exists \in BOOLEAN
    /\ input \in (IF input_exists THEN Files ELSE {<<>>})
    /\ args \in [basic : BOOLEAN, optimized : BOOLEAN]
    /\ pc = "main"
    /\ engine = "none"
    /\ exc = "none"
    /\ count = -1
    /\ output = <<>>
    /\ tmpdir = "none"
    /\ spill = EmptyParts
    /\ files_open = FALSE
    /\ pos = 0
    /\ buffer = EmptyParts
    /\ buffer_size = 0
    /\ num_workers = 0
    /\ task = [p \in Parts |-> "none"]
    /\ result = [p \in Parts |-> 0]
    /\ yielded = {}
    /\ total = 0
    /\ launched = [p \in Parts |-> 0]
    /\ added = [p \in Parts |-> 0]
    /\ placed = {}
    /\ earlier = <<>>

\* ------------------------------------------------------------ main
\* The flags are read by main's dispatch alone: the model forgets them once
\* the engine is chosen, as it forgets the locals of a function that has ended.
NoArgs == [basic |-> FALSE, optimized |-> FALSE]

\* Mutant of SelectedEngine: a file of the threshold's size counts as large.
SelectedFromThreshold ==
    IF args.basic THEN "basic"
    ELSE IF args.optimized \/ FileSize(input) >= MEMORY_MODE_THRESHOLD THEN "optimized"
    ELSE "basic"

\* if args.basic: ... elif args.optimized or getsize > threshold: ... else: ...
SelectedEngine ==
    IF args.basic THEN "basic"
    ELSE IF args.optimized \/ FileSize(input) > MEMORY_MODE_THRESHOLD THEN "optimized"
    ELSE "basic"

\* Mutant of MainNotFound: the input is missed only once the temporary
\* directory was made.
MainNotFoundLate ==
    /\ pc = "main"
    /\ args' = NoArgs
    /\ ~input_exists
    /\ tmpdir' = "removed"
    /\ pc' = "failed"
    /\ exc' = "InputNotFound"
    /\ UNCHANGED <<main_vars, engine, count, output, num_workers>>
    /\ UNCHANGED <<part_vars, pool_vars>>

\* The input path is no file: SystemExit before anything else.
MainNotFound ==
    /\ pc = "main"
    /\ args' = NoArgs
    /\ ~input_exists
    /\ pc' = "failed"
    /\ exc' = "InputNotFound"
    /\ UNCHANGED <<main_vars, engine, count, output, tmpdir, num_workers>>
    /\ UNCHANGED <<part_vars, pool_vars>>

\* main calls count_unique_basic, which returns the count or raises.
MainBasic ==
    /\ pc = "main"
    /\ args' = NoArgs
    /\ input_exists
    /\ SelectedEngine = "basic"
    /\ engine' = "basic"
    /\ LET r == count_unique_basic(input)
       IN  IF r.ok
           THEN pc' = "write" /\ count' = r.n /\ exc' = exc
           ELSE pc' = "failed" /\ exc' = "InvalidAddress" /\ count' = count
    /\ UNCHANGED <<main_vars, output, tmpdir, num_workers>>
    /\ UNCHANGED <<part_vars, pool_vars>>

\* Mutant of CreatedFiles: the partition files are opened as they are found.
FilesLeftAsFound == spill

\* open(p, 'w').close() for every partition path: each file exists and is
\* empty, whatever the directory held under that name.
CreatedFiles == EmptyParts

\* main makes the temporary directory and calls count_unique_optimized with
\* --workers (0 when omitted), which resolves the worker count, creates the
\* partition files empty and opens them.
MainOptimized ==
    /\ pc = "main"
    /\ args' = NoArgs
    /\ input_exists
    /\ SelectedEngine = "optimized"
    /\ engine' = "optimized"
    /\ tmpdir' = "exists"
    /\ \E workers \in 0..MaxWorkers, cpus \in 1..(MaxWorkers + 1) :
           num_workers' = ResolveWorkers(workers, cpus)
    /\ spill' = CreatedFiles
    /\ files_open' = TRUE
    /\ buffer' = EmptyParts
    /\ buffer_size' = 0
    /\ pos' = 0
    /\ pc' = "partition"
    /\ UNCHANGED <<main_vars, exc, count, output, placed>>
    /\ UNCHANGED pool_vars

\* As MainOptimized, but creating or opening the partition files fails
\* (OSError) and the error propagates.
MainOptimizedOpenFails ==
    /\ pc = "main"
    /\ args' = NoArgs
    /\ input_exists
    /\ SelectedEngine = "optimized"
    /\ engine' = "optimized"
    /\ tmpdir' = "exists"
    /\ \E workers \in 0..MaxWorkers, cpus \in 1..(MaxWorkers + 1) :
           num_workers' = ResolveWorkers(workers, cpus)
    /\ exc' = "SpillIOError"
    /\ pc' = "opt_raise"
    /\ UNCHANGED <<main_vars, count, output>>
    /\ UNCHANGED <<part_vars, pool_vars>>

\* ------------------------------------------------------------ phase 1
\* Mutant of BufferAfterAppend: the index comes from a hash salted by the run,
\* as Python's hash() of a string is; the worker count stands for the salt.
AppendAtSaltedIndex(canonical) ==
    [buffer EXCEPT ![(PartitionIndex(canonical) + num_workers) % NUM_PARTITIONS] =
                       Append(@, canonical \o <<"\n">>)]

\* Mutant of BufferAfterAppend: the lines go to the partitions in turn.
AppendInTurn(canonical) ==
    [buffer EXCEPT ![pos % NUM_PARTITIONS] = Append(@, canonical \o <<"\n">>)]

\* The buffers and the files after one canonical line went to partition idx.
BufferAfterAppend(canonical) ==
    [buffer EXCEPT ![PartitionIndex(canonical)] = Append(@, canonical \o <<"\n">>)]

SizeAfterAppend(canonical) == buffer_size + Len(canonical) + 1

\* Mutant of MustFlush: the buffers are written at the end of the input only.
NeverFlush(size) == FALSE

MustFlush(size) == size >= CHUNK_WRITE_SIZE

\* The history of placements once the buffers became buf.
PlacedAfter(canonical, buf) ==
    placed \cup {<<canonical, p>> : p \in {q \in Parts : buf[q] # buffer[q]}}

\* One turn of the loop over the input: a blank line is passed over, a line that
\* does not parse raises (the finally clause closes the files), any other line
\* is buffered and the buffers are flushed once the threshold is reached.
ReadLine ==
    /\ pc = "partition"
    /\ pos < Len(input)
    /\ LET line == Strip(input[pos + 1])
       IN  IF line = <<>> THEN
               /\ pos' = pos + 1
               /\ UNCHANGED <<spill, files_open, buffer, buffer_size, placed, pc, exc>>
           ELSE IF ~IsValid(line) THEN
               /\ pos' = pos + 1
               /\ files_open' = FALSE
               /\ exc' = "InvalidAddress"
               /\ pc' = "opt_raise"
               /\ UNCHANGED <<spill, buffer, buffer_size, placed>>
           ELSE
               LET canonical == ipv6_to_canonical(line)
                   buf == BufferAfterAppend(canonical)
                   size == SizeAfterAppend(canonical)
               IN  /\ pos' = pos + 1
                   /\ placed' = PlacedAfter(canonical, buf)
                   /\ IF MustFlush(size)
                      THEN /\ spill' = WriteBuffers(spill, buf)
                           /\ buffer' = EmptyParts
                           /\ buffer_size' = 0
                      ELSE /\ spill' = spill
                           /\ buffer' = buf
                           /\ buffer_size' = size
                   /\ UNCHANGED <<files_open, pc, exc>>
    /\ UNCHANGED <<args, main_vars, engine, count, output, tmpdir, num_workers>>
    /\ UNCHANGED pool_vars

\* fh.writelines fails (OSError) at partition k, the files before k written and
\* their buffers cleared: the finally clause closes the files, the error
\* propagates.
WriteFails(buf, k) ==
    /\ buf[k] # <<>>
    /\ spill' = [p \in Parts |-> IF p < k /\ buf[p] # <<>> THEN spill[p] \o buf[p] ELSE spill[p]]
    /\ files_open' = FALSE
    /\ exc' = "SpillIOError"
    /\ pc' = "opt_raise"

\* The flush a valid line sets off fails.
FlushIOError ==
    /\ pc = "partition"
    /\ pos < Len(input)
    /\ LET line == Strip(input[pos + 1])
       IN  /\ line # <<>>
           /\ IsValid(line)
           /\ LET canonical == ipv6_to_canonical(line)
                  buf == BufferAfterAppend(canonical)
              IN  /\ MustFlush(SizeAfterAppend(canonical))
                  /\ \E k \in Parts :
                         /\ WriteFails(buf, k)
                         /\ buffer' = [p \in Parts |-> IF p < k THEN <<>> ELSE buf[p]]
                  /\ buffer_size' = SizeAfterAppend(canonical)
                  /\ placed' = PlacedAfter(canonical, buf)
                  /\ pos' = pos + 1
    /\ UNCHANGED <<args, main_vars, engine, count, output, tmpdir, num_workers>>
    /\ UNCHANGED pool_vars

\* The flush at the end of the input fails.
FinalFlushIOError ==
    /\ pc = "partition"
    /\ pos = Len(input)
    /\ \E k \in Parts : WriteFails(buffer, k)
    /\ UNCHANGED <<args, main_vars, engine, count, output, tmpdir, num_workers>>
    /\ UNCHANGED <<pos, buffer, buffer_size, placed>>
    /\ UNCHANGED pool_vars

\* Mutant of FinalFiles: no flush at the end of the input.
FilesWithoutFinalFlush == spill

\* The files after the flush at the end of the input.
FinalFiles == WriteBuffers(spill, buffer)

\* End of input: what is left in the buffers is written, the files are closed.
FinalFlush ==
    /\ pc = "partition"
    /\ pos = Len(input)
    /\ spill' = FinalFiles
    /\ files_open' = FALSE
    /\ pc' = "phase2"
    /\ UNCHANGED <<args, main_vars, engine, exc, count, output, tmpdir, num_workers>>
    /\ UNCHANGED <<pos, buffer, buffer_size, placed>>
    /\ UNCHANGED pool_vars

\* ------------------------------------------------------------ phase 2
\* Mutant of ToSubmit: a task for every partition file, empty or not.
AllPartitionFiles == Parts

\* The partition files a task is submitted for.
ToSubmit == {p \in Parts : FileSize(spill[p]) > 0}

\* total = 0, the pool is made and one task is submitted for every partition
\* file that is not empty.
SubmitAll ==
    /\ pc = "phase2"
    /\ total' = 0
    /\ task' = [p \in Parts |-> IF p \in ToSubmit THEN "queued" ELSE task[p]]
    /\ launched' = [p \in Parts |-> IF p \in ToSubmit THEN launched[p] + 1 ELSE launched[p]]
    /\ pc' = "collect"
    /\ UNCHANGED <<args, main_vars, engine, exc, count, output, tmpdir, num_workers>>
    /\ UNCHANGED <<part_vars, result, yielded, added>>

Running == {p \in Parts : task[p] = "running"}

\* Mutant of WorkerFree: a pool that starts whatever is queued.
AlwaysFree == TRUE

\* A worker process is free to take a task.
WorkerFree == Cardinality(Running) < num_workers

\* A worker of the pool takes the queued task that was submitted first.
StartTask(p) ==
    /\ task[p] = "queued"
    /\ \A q \in Parts : q < p => task[q] # "queued"
    /\ WorkerFree
    /\ task' = [task EXCEPT ![p] = "running"]
    /\ UNCHANGED <<args, main_vars, pc, engine, exc, count, output, tmpdir, num_workers>>
    /\ UNCHANGED <<part_vars, result, yielded, total, launched, added>>

\* A running task returns the distinct lines of its file.
FinishTask(p) ==
    /\ task[p] = "running"
    /\ task' = [task EXCEPT ![p] = "ok"]
    /\ result' = [result EXCEPT ![p] = count_unique_in_partition(spill[p])]
    /\ UNCHANGED <<args, main_vars, pc, engine, exc, count, output, tmpdir, num_workers>>
    /\ UNCHANGED <<part_vars, yielded, total, launched, added>>

\* A running task raises (an I/O error on its file, a dead worker).
FailTask(p) ==
    /\ task[p] = "running"
    /\ task' = [task EXCEPT ![p] = "failed"]
    /\ UNCHANGED <<args, main_vars, pc, engine, exc, count, output, tmpdir, num_workers>>
    /\ UNCHANGED <<part_vars, result, yielded, total, launched, added>>

Submitted == {p \in Parts : task[p] # "none"}
Finished == {p \in Parts : task[p] \in {"ok", "failed"}}

\* The futures as_completed can hand to the loop next.
NextCompleted == Finished \ yielded

\* Mutant of Collect: a failed task is passed over and counts for nothing.
CollectSwallow(p) ==
    /\ pc = "collect"
    /\ p \in NextCompleted
    /\ yielded' = yielded \cup {p}
    /\ IF task[p] = "ok"
       THEN /\ total' = total + result[p]
            /\ added' = [added EXCEPT ![p] = @ + 1]
       ELSE UNCHANGED <<total, added>>
    /\ UNCHANGED <<args, main_vars, pc, exc, engine, count, output, tmpdir, num_workers>>
    /\ UNCHANGED <<part_vars, task, result, launched>>

\* Mutant of Collect: the total is set to the result, not increased by it.
CollectOverwrite(p) ==
    /\ pc = "collect"
    /\ p \in NextCompleted
    /\ yielded' = yielded \cup {p}
    /\ IF task[p] = "ok"
       THEN /\ total' = result[p]
            /\ added' = [added EXCEPT ![p] = @ + 1]
            /\ UNCHANGED <<pc, exc>>
       ELSE /\ exc' = "WorkerFailure"
            /\ pc' = "pool_exit"
            /\ UNCHANGED <<total, added>>
    /\ UNCHANGED <<args, main_vars, engine, count, output, tmpdir, num_workers>>
    /\ UNCHANGED <<part_vars, task, result, launched>>

\* One turn of the loop over as_completed: future.result() is added to the
\* total, or raises what the task raised.
Collect(p) ==
    /\ pc = "collect"
    /\ p \in NextCompleted
    /\ yielded' = yielded \cup {p}
    /\ IF task[p] = "ok"
       THEN /\ total' = total + result[p]
            /\ added' = [added EXCEPT ![p] = @ + 1]
            /\ UNCHANGED <<pc, exc>>
       ELSE /\ exc' = "WorkerFailure"
            /\ pc' = "pool_exit"
            /\ UNCHANGED <<total, added>>
    /\ UNCHANGED <<args, main_vars, engine, count, output, tmpdir, num_workers>>
    /\ UNCHANGED <<part_vars, task, result, launched>>

\* The pool's shutdown(wait=True) returns once no task is queued or running.
PoolIdle == Submitted \subseteq Finished

\* Mutant of ReturnTotal: the total is returned once no task is running or
\* queued, collected or not.
ReturnEarly ==
    /\ pc = "collect"
    /\ PoolIdle
    /\ pc' = "opt_return"
    /\ count' = total
    /\ UNCHANGED <<args, main_vars, engine, exc, output, tmpdir, num_workers>>
    /\ UNCHANGED <<part_vars, pool_vars>>

\* as_completed is exhausted: the with block is left and the total returned.
ReturnTotal ==
    /\ pc = "collect"
    /\ yielded = Submitted
    /\ PoolIdle
    /\ pc' = "opt_return"
    /\ count' = total
    /\ UNCHANGED <<args, main_vars, engine, exc, output, tmpdir, num_workers>>
    /\ UNCHANGED <<part_vars, pool_vars>>

\* An exception leaves the with block: the executor's __exit__ shuts the pool
\* down, waiting for the tasks, and the exception goes on to the caller.
PoolExit ==
    /\ pc = "pool_exit"
    /\ PoolIdle
    /\ pc' = "opt_raise"
    /\ UNCHANGED <<args, main_vars, engine, exc, count, output, tmpdir, num_workers>>
    /\ UNCHANGED <<part_vars, pool_vars>>

\* ------------------------------------------------------------ main, the end
\* Mutant of AfterCleanup: the directory is removed on return only.
KeptOnFailure == IF exc # "none" THEN "exists" ELSE "removed"

\* What is left of the temporary directory once TemporaryDirectory is left.
AfterCleanup == "removed"

\* main's with block is left, by return or by exception: the temporary
\* directory and the files in it are removed.  The locals of
\* count_unique_optimized are gone with its frame.
TmpCleanup ==
    /\ pc \in {"opt_return", "opt_raise"}
    /\ tmpdir' = AfterCleanup
    /\ spill' = IF AfterCleanup = "removed" THEN EmptyParts ELSE spill
    /\ pc' = IF pc = "opt_return" THEN "write" ELSE "failed"
    /\ pos' = 0
    /\ buffer' = EmptyParts
    /\ buffer_size' = 0
    /\ task' = [p \in Parts |-> "none"]
    /\ result' = [p \in Parts |-> 0]
    /\ yielded' = {}
    /\ total' = 0
    /\ UNCHANGED <<args, main_vars, engine, exc, count, output, num_workers>>
    /\ UNCHANGED <<files_open, launched, added, placed>>

\* The count is written to the output file.
WriteOutput ==
    /\ pc = "write"
    /\ output' = Append(output, count)
    /\ pc' = "done"
    /\ UNCHANGED <<args, main_vars, engine, exc, count, tmpdir, num_workers>>
    /\ UNCHANGED <<part_vars, pool_vars>>

Next ==
    \/ MainNotFound
    \/ MainBasic
    \/ MainOptimized
    \/ MainOptimizedOpenFails
    \/ ReadLine
    \/ FlushIOError
    \/ FinalFlushIOError
    \/ FinalFlush
    \/ SubmitAll
    \/ \E p \in Parts : StartTask(p)
    \/ \E p \in Parts : FinishTask(p)
    \/ \E p \in Parts : FailTask(p)
    \/ \E p \in Parts : Collect(p)
    \/ ReturnTotal
    \/ PoolExit
    \/ TmpCleanup
    \/ WriteOutput

Spec == Init /\ [][Next]_vars

\* ------------------------------------------------------------ scheduling
\* The steps of the main process, I/O errors left out.
MainProcess ==
    \/ MainNotFound
    \/ MainBasic
    \/ MainOptimized
    \/ ReadLine
    \/ FinalFlush
    \/ SubmitAll
    \/ \E p \in Parts : Collect(p)
    \/ ReturnTotal
    \/ PoolExit
    \/ TmpCleanup
    \/ WriteOutput

\* The main process goes on while it has a step to take, an idle worker takes
\* a queued task, and a task that runs ends, by returning or by raising.
Fairness ==
    /\ WF_vars(MainProcess)
    /\ WF_vars(\E p \in Parts : StartTask(p))
    /\ \A p \in Parts : WF_vars(FinishTask(p) \/ FailTask(p))

\* The program is started: one state before main, from which the file, its
\* existence and the flags are drawn as Init draws them, the files being those
\* of fewer than MaxLines lines.
Invoke ==
    /\ pc = "start"
    /\ input_exists' \in BOOLEAN
    /\ input' \in (IF input_exists' THEN {f \in Files : Len(f) < MaxLines} ELSE {<<>>})
    /\ args' \in [basic : BOOLEAN, optimized : BOOLEAN]
    /\ pc' = "main"
    /\ UNCHANGED <<engine, exc, count, output, tmpdir, num_workers, earlier>>
    /\ UNCHANGED <<part_vars, pool_vars>>

FairInit ==
    /\ input_exists = FALSE
    /\ input = <<>>
    /\ args = NoArgs
    /\ pc = "start"
    /\ engine = "none"
    /\ exc = "none"
    /\ count = -1
    /\ output = <<>>
    /\ tmpdir = "none"
    /\ spill = EmptyParts
    /\ files_open = FALSE
    /\ pos = 0
    /\ buffer = EmptyParts
    /\ buffer_size = 0
    /\ num_workers = 0
    /\ task = [p \in Parts |-> "none"]
    /\ result = [p \in Parts |-> 0]
    /\ yielded = {}
    /\ total = 0
    /\ launched = [p \in Parts |-> 0]
    /\ added = [p \in Parts |-> 0]
    /\ placed = {}
    /\ earlier = <<>>

FairNext ==
    \/ Invoke
    \/ Next

FairSpec == FairInit /\ [][FairNext]_vars /\ WF_vars(Invoke) /\ Fairness

\* ------------------------------------------------------------ a second run
\* The program has written its count and is run once more on the same file,
\* with flags and a worker count of its own and a new output file (as the
\* tests do): main starts afresh, and the first run's count is kept aside.
RunAgain ==
    /\ pc = "done"
    /\ earlier = <<>>
    /\ earlier' = output
    /\ args' \in [basic : BOOLEAN, optimized : BOOLEAN]
    /\ pc' = "main"
    /\ engine' = "none"
    /\ count' = -1
    /\ output' = <<>>
    /\ tmpdir' = "none"
    /\ num_workers' = 0
    /\ launched' = [p \in Parts |-> 0]
    /\ added' = [p \in Parts |-> 0]
    /\ UNCHANGED <<input_exists, input, exc, part_vars, task, result, yielded, total>>

\* count_unique_optimized has returned and its caller calls it once more with
\* the same input and the same temp_dir, where the first call's partition
\* files still are; the worker count is the second call's own.
CallAgain ==
    /\ pc = "opt_return"
    /\ earlier = <<>>
    /\ earlier' = <<count, spill>>
    /\ count' = -1
    /\ \E workers \in 0..MaxWorkers, cpus \in 1..(MaxWorkers + 1) :
           num_workers' = ResolveWorkers(workers, cpus)
    /\ spill' = CreatedFiles
    /\ files_open' = TRUE
    /\ buffer' = EmptyParts
    /\ buffer_size' = 0
    /\ pos' = 0
    /\ pc' = "partition"
    /\ task' = [p \in Parts |-> "none"]
    /\ result' = [p \in Parts |-> 0]
    /\ yielded' = {}
    /\ total' = 0
    /\ launched' = [p \in Parts |-> 0]
    /\ added' = [p \in Parts |-> 0]
    /\ UNCHANGED <<input_exists, input, args, engine, exc, output, tmpdir, placed>>

TwiceNext ==
    \/ Next
    \/ RunAgain
    \/ CallAgain

\* The two runs are followed for the input files of fewer than MaxLines lines.
TwiceInit == Init /\ Len(input) < MaxLines

TwiceSpec == TwiceInit /\ [][TwiceNext]_vars

\* ------------------------------------------------------------ the claims
\* What a line denotes: the address as a number, -1 for a line that is none.
DenotesTable == [t \in Texts |-> IPv6Address(Strip(t))]

Denotes(text) == DenotesTable[text]

NonBlank(lines) == {i \in 1..Len(lines) : Strip(lines[i]) # <<>>}

HasInvalid(lines) == \E i \in NonBlank(lines) : Denotes(lines[i]) < 0

\* The distinct addresses the lines of a file denote.
Values(lines) == {Denotes(lines[i]) : i \in NonBlank(lines)}

RECURSIVE SumCounts(_)
SumCounts(S) ==
    IF S = {} THEN 0
    ELSE LET p == CHOOSE q \in S : TRUE
         IN  count_unique_in_partition(spill[p]) + SumCounts(S \ {p})

Occurrences(seq, x) == Cardinality({i \in 1..Len(seq) : seq[i] = x})

RECURSIVE SpillOccurrences(_, _)
SpillOccurrences(S, x) ==
    IF S = {} THEN 0
    ELSE LET p == CHOOSE q \in S : TRUE
         IN  Occurrences(spill[p], x) + SpillOccurrences(S \ {p}, x)

RECURSIVE SpillLines(_)
SpillLines(S) ==
    IF S = {} THEN 0
    ELSE LET p == CHOOSE q \in S : TRUE IN Len(spill[p]) + SpillLines(S \ {p})

\* The line the partitioner is to write for input line i.
SpillLineOf(lines, i) == Exploded(Denotes(lines[i]), HEXTET_COUNT) \o <<"\n">>

\* The environment made the run fail: an I/O error or a failed task.
EnvFault == exc \in {"SpillIOError", "WorkerFailure"}

\* C1: when count_unique_optimized returns, its count is the number of distinct
\* addresses (as numbers) that the non-blank lines of the input denote, and it is
\* the sum over the partition files of their distinct lines.
C1_OptimizedCountsDistinctValues ==
    pc = "opt_return" =>
        /\ ~HasInvalid(input)
        /\ count = Cardinality(Values(input))
        /\ count = SumCounts(Parts)

\* C1: a run returned a count smaller than its number of non-blank lines, for an
\* input that spells one address in two ways beside another address.
C1_Witness ==
    /\ pc = "opt_return"
    /\ \E i, j \in NonBlank(input) :
           /\ input[i] # input[j]
           /\ Strip(input[i]) # Strip(input[j])
           /\ Denotes(input[i]) = Denotes(input[j])
    /\ count = 2
    /\ Cardinality(NonBlank(input)) = 4

\* C2: the optimized engine returns what the basic engine returns for the same
\* file, and where it fails on a line the basic engine fails too.
C2_EngineEquivalence ==
    /\ pc = "opt_return" =>
           /\ count_unique_basic(input).ok
           /\ count = count_unique_basic(input).n
    /\ (engine = "optimized" /\ pc \in {"failed", "opt_raise"} /\ ~EnvFault)
           => ~count_unique_basic(input).ok
    /\ (engine = "optimized" /\ pc \in {"phase2", "write", "done"})
           => count_unique_basic(input).ok

\* C2: an optimized run returned for a file with a blank line and a repeated
\* address, where the basic engine counts 2.
C2_Witness ==
    /\ pc = "opt_return"
    /\ Len(input) = 4
    /\ Cardinality(NonBlank(input)) = 3
    /\ count_unique_basic(input).n = 2

\* C3: once partitioning is complete, every canonical line is in the partition
\* files as often as the non-blank input lines denote it, and the files hold no
\* other line.
C3_SpillFilesHoldEveryLineOnce ==
    pc \in {"phase2", "collect", "pool_exit", "opt_return"} =>
        /\ \A i \in NonBlank(input) :
               SpillOccurrences(Parts, SpillLineOf(input, i))
                   = Cardinality({j \in NonBlank(input) : Denotes(input[j]) = Denotes(input[i])})
        /\ SpillLines(Parts) = Cardinality(NonBlank(input))

\* C3: partitioning ended after two flushes in the loop, with a line that
\* occurs twice.
C3_Witness ==
    /\ pc = "phase2"
    /\ Cardinality(NonBlank(input)) = 4
    /\ \E p \in Parts : Cardinality({spill[p][i] : i \in 1..Len(spill[p])}) < Len(spill[p])
    /\ \A p \in Parts : spill[p] # <<>>

\* C4: once control is back in main after an optimized run, by return or by
\* exception, the temporary directory and its files are gone.
C4_TempRemovedOnEveryExit ==
    (engine = "optimized" /\ pc \in {"write", "done", "failed"}) =>
        /\ tmpdir = "removed"
        /\ spill = EmptyParts

\* C4: a run failed by a counting task, after partition files were written.
C4_Witness ==
    /\ pc = "failed"
    /\ exc = "WorkerFailure"
    /\ tmpdir = "removed"
    /\ \E p \in Parts : launched[p] = 1

\* C5: the output file is written once, with the count the engine returned and
\* only when no error occurred and every submitted task's result is in the
\* count; a run that failed leaves the output file untouched.
C5_NoPartialOutput ==
    /\ output # <<>> =>
           /\ pc = "done"
           /\ exc = "none"
           /\ output = <<count>>
           /\ engine = "optimized" => \A p \in Parts : added[p] = launched[p]
    /\ (exc # "none" \/ pc = "failed") => output = <<>>

\* C5: a run failed by a counting task when part of the total had been added.
C5_Witness ==
    /\ pc = "opt_raise"
    /\ exc = "WorkerFailure"
    /\ total > 0
    /\ output = <<>>

\* C6: a run over a file with an invalid non-blank line never gets past that
\* line: the basic engine fails, the optimized engine never reaches the counting
\* phase and launches no task and stops at the first such line; and a run
\* without I/O error or failed task fails only if there is such a line.
C6_InvalidLineAbortsRun ==
    /\ (pc \in {"phase2", "write", "done"} \/ \E p \in Parts : launched[p] # 0 \/ task[p] # "none")
           => ~HasInvalid(input)
    /\ (pc = "failed" /\ engine = "basic") => HasInvalid(input)
    /\ (pc \in {"failed", "opt_raise"} /\ engine = "optimized" /\ ~EnvFault)
           => (exc = "InvalidAddress" /\ HasInvalid(input))
    /\ (pc = "opt_raise" /\ exc = "InvalidAddress") =>
           /\ pos \in NonBlank(input)
           /\ Denotes(input[pos]) < 0
           /\ \A i \in NonBlank(input) : i < pos => Denotes(input[i]) >= 0

\* C6: the optimized engine raised on the last line of a four-line file, after
\* a flush.
C6_Witness ==
    /\ pc = "opt_raise"
    /\ exc = "InvalidAddress"
    /\ pos = 4
    /\ Len(input) = 4
    /\ \E p \in Parts : spill[p] # <<>>

\* C7: when an optimized run returns, every partition file that is not empty
\* was submitted once and its result added once, and no task was made for an
\* empty file; at no time is a file submitted or a result added twice.
C7_EachSpillFileCountedOnce ==
    /\ \A p \in Parts : launched[p] <= 1 /\ added[p] <= launched[p]
    /\ pc \in {"collect", "pool_exit", "opt_return"} =>
           \A p \in Parts : (launched[p] = 1) = (spill[p] # <<>>)
    /\ pc = "opt_return" => \A p \in Parts : added[p] = launched[p]

\* C7: a run returned with one partition file empty and one not.
C7_Witness ==
    /\ pc = "opt_return"
    /\ \E p, q \in Parts : spill[p] = <<>> /\ spill[q] # <<>> /\ added[q] = 1 /\ launched[p] = 0

\* C8 (as claimed): once a task's failure was raised in the coordinator's loop,
\* the exception can leave count_unique_optimized at once, whatever the other
\* tasks are doing.
C8_FailurePropagatesWithoutWaiting ==
    pc = "pool_exit" => ENABLED PoolExit

\* C9: during and after the collection of results the total is the sum of the
\* distinct-line counts of the files whose futures the loop has taken, whatever
\* the order they finished in and whatever the pool size; the returned count is
\* that sum over all the submitted files.
C9_TotalIndependentOfOrder ==
    /\ pc \in {"collect", "pool_exit", "opt_return"} =>
           /\ total = SumCounts({p \in yielded : task[p] = "ok"})
           /\ \A p \in Parts :
                  task[p] = "ok" => result[p] = count_unique_in_partition(spill[p])
    /\ pc = "opt_return" => count = SumCounts(ToSubmit)

\* C9: with two workers the task submitted last was collected first, the other
\* still running.
C9_Witness ==
    /\ pc = "collect"
    /\ num_workers = 2
    /\ \E p, q \in Parts :
           /\ p < q
           /\ task[p] = "running"
           /\ yielded = {q}
           /\ total = result[q]
           /\ total > 0

\* C10: no more tasks run at once than the pool has workers.
C10_ParallelismBounded ==
    Cardinality(Running) <= num_workers

\* C10: more files to count than workers: one task runs, another waits.
C10_Witness ==
    /\ Cardinality(ToSubmit) > num_workers
    /\ Cardinality(Running) = num_workers
    /\ \E p \in Parts : task[p] = "queued"

\* C11 (as claimed): at every point of the counting phase at most one partition
\* file is loaded into a set, whatever the pool size: never two tasks of
\* count_unique_in_partition running at once.
C11_OnePartitionInMemory ==
    pc \in {"collect", "pool_exit"} => Cardinality(Running) <= 1

\* The phase of an optimized run: Idle before count_unique_optimized is entered,
\* Partitioning in the loop over the input, Counting from the closing of the
\* files until the loop over as_completed has taken every future, Aggregated
\* from then until the total is returned, Done once it is returned, Failed once
\* an exception propagates.
Phase ==
    CASE pc = "main" -> "Idle"
      [] pc = "partition" -> "Partitioning"
      [] pc = "phase2" -> "Counting"
      [] pc = "collect" -> IF yielded = Submitted THEN "Aggregated" ELSE "Counting"
      [] pc \in {"opt_return", "write", "done"} -> "Done"
      [] OTHER -> "Failed"

PhaseOrder ==
    {<<"Idle", "Partitioning">>, <<"Partitioning", "Counting">>,
     <<"Counting", "Aggregated">>, <<"Aggregated", "Done">>}

\* Every line in the buffers is at the end of its partition file.
BuffersFlushed ==
    \A p \in Parts :
        /\ Len(buffer[p]) <= Len(spill[p])
        /\ SubSeq(spill[p], Len(spill[p]) - Len(buffer[p]) + 1, Len(spill[p])) = buffer[p]

\* C12: a step of an optimized run keeps the phase, moves it to the next of
\* Idle, Partitioning, Counting, Aggregated, Done, or moves it from one of the
\* first four to Failed; Done and Failed are never left.  A task is submitted
\* only after the whole input was read, the buffers written out and the files
\* closed; a partition file is written in the Partitioning phase alone; and in
\* the Done phase every submitted task's result has been added to the total.
C12_PhasesInOrder ==
    [][engine' = "optimized" =>
          /\ \/ Phase' = Phase
             \/ <<Phase, Phase'>> \in PhaseOrder
             \/ Phase' = "Failed" /\ Phase # "Done"
          /\ (\E p \in Parts : task[p] = "none" /\ task'[p] # "none") =>
                 /\ Phase = "Counting"
                 /\ pos = Len(input)
                 /\ ~files_open
                 /\ BuffersFlushed
          /\ (\E p \in Parts : spill'[p] # spill[p] /\ spill'[p] # <<>>) =>
                 Phase = "Partitioning"
          /\ Phase' = "Done" => \A p \in Parts : added'[p] = launched'[p]
      ]_vars

\* C12: the total of two tasks was returned, the second collected last.
C12_Witness ==
    /\ pc = "opt_return"
    /\ Phase = "Done"
    /\ \A p \in Parts : launched[p] = 1 /\ added[p] = 1
    /\ count = 2

\* C13: over two runs on the same input, whatever the flags, worker counts and
\* task orders of each, no canonical address was ever buffered at two different
\* partition indices, and a run that writes its output writes the count the
\* earlier run returned.
C13_SameResultOnRerun ==
    /\ \A x, y \in placed : x[1] = y[1] => x[2] = y[2]
    /\ (earlier # <<>> /\ pc = "opt_return") => count = earlier[1]
    /\ (earlier # <<>> /\ output # <<>>) => output = <<earlier[1]>>

\* C13: a second run, in optimized mode, has written the count of two
\* addresses the earlier run wrote, both runs having placed both addresses.
C13_Witness ==
    /\ pc = "done"
    /\ engine = "optimized"
    /\ earlier = <<2>>
    /\ output = <<2>>
    /\ tmpdir = "removed"
    /\ Cardinality(placed) = 2
    /\ Cardinality(NonBlank(input)) = 3

\* A line of blanks alone, read off its characters.
BlankLine(l) == \A i \in 1..Len(l) : l[i] \in {" ", "\t", "\n", "\r"}

AllBlank(lines) == \A i \in 1..Len(lines) : BlankLine(lines[i])

\* The file with its blank lines taken out.
WithoutBlank(lines) == SelectSeq(lines, LAMBDA l : ~BlankLine(l))

\* C14: a count that either engine returns is the count the basic engine gives
\* for the file with its blank lines taken out, and it is 0 for a file that is
\* empty or all blank lines; on such a file the optimized engine writes no
\* partition file, submits no task, and fails only if the partition files could
\* not be opened.
C14_BlankLinesDoNotCount ==
    /\ pc \in {"opt_return", "write", "done"} =>
           /\ count = count_unique_basic(WithoutBlank(input)).n
           /\ AllBlank(input) => count = 0
    /\ (input_exists /\ pc # "main" /\ AllBlank(input)) =>
           /\ spill = EmptyParts
           /\ placed = {}
           /\ \A p \in Parts : launched[p] = 0 /\ task[p] = "none"
           /\ exc \in {"none", "SpillIOError"}
           /\ pc \in {"failed", "opt_raise"} => (engine = "optimized" /\ exc = "SpillIOError")

\* C14: the optimized engine returned 0 for a file of two blank lines.
C14_Witness ==
    /\ pc = "opt_return"
    /\ engine = "optimized"
    /\ Len(input) = 2
    /\ AllBlank(input)
    /\ count = 0
    /\ total = 0

\* C15: when the input path is no file, the run goes from main straight to
\* failure with InputNotFound: no engine is called, no temporary directory or
\* partition file is made, nothing is read, no task is submitted, and the
\* output file is left as it was; and InputNotFound is raised in no other case.
C15_MissingInputFailsFirst ==
    /\ ~input_exists =>
           /\ pc \in {"main", "failed"}
           /\ pc = "failed" => exc = "InputNotFound"
           /\ engine = "none"
           /\ tmpdir = "none"
           /\ spill = EmptyParts /\ ~files_open /\ pos = 0 /\ placed = {}
           /\ \A p \in Parts : launched[p] = 0 /\ task[p] = "none"
           /\ count = -1
           /\ output = <<>>
    /\ exc = "InputNotFound" => ~input_exists

\* C15: a run has failed with InputNotFound.
C15_Witness ==
    /\ ~input_exists
    /\ pc = "failed"
    /\ exc = "InputNotFound"
    /\ output = <<>>

\* C16: the step in which main chooses its engine, for an input that exists,
\* calls the basic engine when --basic is given (with or without --optimized),
\* the optimized engine when --optimized alone is given, and with neither flag
\* the optimized engine exactly when the file is larger than
\* MEMORY_MODE_THRESHOLD, a file of exactly that size going to the basic engine.
C16_EngineSelection ==
    [][(pc = "main" /\ input_exists) =>
          /\ engine' \in {"basic", "optimized"}
          /\ args.basic => engine' = "basic"
          /\ (args.optimized /\ ~args.basic) => engine' = "optimized"
          /\ (~args.optimized /\ ~args.basic) =>
                 /\ FileSize(input) > MEMORY_MODE_THRESHOLD => engine' = "optimized"
                 /\ FileSize(input) <= MEMORY_MODE_THRESHOLD => engine' = "basic"
      ]_vars

\* C16: the optimized engine was called for a file of exactly
\* MEMORY_MODE_THRESHOLD characters, which only --optimized without --basic
\* brings about.
C16_Witness ==
    /\ pc = "partition"
    /\ engine = "optimized"
    /\ pos = 0
    /\ FileSize(input) = MEMORY_MODE_THRESHOLD

\* The lines partition p holds, in its buffer or in its file.
HeldBy(p) ==
    {buffer[p][i] : i \in 1..Len(buffer[p])} \cup {spill[p][i] : i \in 1..Len(spill[p])}

\* A line without its newline.
Chomp(line) == SubSeq(line, 1, Len(line) - 1)

\* C17: from the start of partitioning until the partition files are removed,
\* every line in the buffer or the file of partition p has the index p
\* (hash of the canonical text modulo NUM_PARTITIONS), and no line is held by
\* two partitions.
C17_PartitionsDisjoint ==
    pc \in {"partition", "phase2", "collect", "pool_exit", "opt_return", "opt_raise"} =>
        /\ \A p \in Parts : \A line \in HeldBy(p) : PartitionIndex(Chomp(line)) = p
        /\ \A p, q \in Parts : p # q => HeldBy(p) \cap HeldBy(q) = {}

\* C17: an address written to a partition file by a flush is buffered again
\* for the same partition, another partition holding another address.
C17_Witness ==
    /\ pc = "partition"
    /\ \E p, q \in Parts :
           /\ p # q
           /\ spill[q] # <<>>
           /\ buffer[p] # <<>>
           /\ \E i \in 1..Len(spill[p]) : spill[p][i] = buffer[p][1]

RECURSIVE CharsOf(_)
CharsOf(lines) == IF lines = <<>> THEN 0 ELSE Len(Head(lines)) + CharsOf(Tail(lines))

RECURSIVE BytesIn(_, _)
BytesIn(buf, S) ==
    IF S = {} THEN 0
    ELSE LET p == CHOOSE q \in S : TRUE IN CharsOf(buf[p]) + BytesIn(buf, S \ {p})

\* The characters the buffers actually hold.
BufferedBytes == BytesIn(buffer, Parts)

\* The length of a canonical line, its newline counted.
CanonicalLineLen == HEXTET_COUNT * (HEXTET_DIGITS + 1)

\* A step that writes buffered lines to the partition files and goes on.
FlushStep == pc = "partition" /\ pc' \in {"partition", "phase2"} /\ spill' # spill

\* C18 (as claimed): while the input is partitioned the buffers hold fewer
\* characters than CHUNK_WRITE_SIZE and one canonical line, buffer_size is the
\* number they hold, and after every flush, the one at the end of the input
\* too, the buffers are empty and buffer_size is 0.
C18_BuffersEmptyAfterEveryFlush ==
    /\ [](pc = "partition" =>
              /\ BufferedBytes < CHUNK_WRITE_SIZE + CanonicalLineLen
              /\ buffer_size = BufferedBytes)
    /\ [][FlushStep => (buffer' = EmptyParts /\ buffer_size' = 0)]_vars

\* C18 (amended): between the turns of the loop over the input, and after the
\* end of the input, buffer_size is the number of characters the buffers hold
\* and is less than CHUNK_WRITE_SIZE, so that less than CHUNK_WRITE_SIZE and
\* one canonical line is held when a line was just appended; a flush inside the
\* loop leaves the buffers empty and buffer_size 0; the flush at the end of the
\* input writes the buffers out and leaves them and buffer_size as they were.
C18_BuffersBounded ==
    /\ [](pc \in {"partition", "phase2", "collect", "pool_exit", "opt_return"} =>
              /\ buffer_size = BufferedBytes
              /\ BufferedBytes < CHUNK_WRITE_SIZE
              /\ BufferedBytes + CanonicalLineLen < CHUNK_WRITE_SIZE + CanonicalLineLen)
    /\ [][(FlushStep /\ pc' = "partition") =>
              (buffer' = EmptyParts /\ buffer_size' = 0)]_vars
    /\ [][(pc = "partition" /\ pc' = "phase2") =>
              (buffer' = buffer /\ buffer_size' = buffer_size
               /\ spill' = WriteBuffers(spill, buffer))]_vars

\* C18: the input has ended after a flush inside the loop and one more line:
\* that line is in its partition file and still in its buffer.
C18_Witness ==
    /\ pc = "phase2"
    /\ SpillLines(Parts) = 3
    /\ buffer_size = CanonicalLineLen
    /\ \E p \in Parts : Len(buffer[p]) = 1 /\ buffer[p][1] = spill[p][Len(spill[p])]

\* C19: when partitioning begins every partition file is empty, also in a
\* second call that finds the first call's files in temp_dir; at no time do the
\* files hold more lines than the call has read non-blank lines; and the second
\* call returns the count the first call returned.
C19_SpillFilesStartEmpty ==
    /\ (pc = "partition" /\ pos = 0) => spill = EmptyParts
    /\ pc \in {"partition", "phase2", "collect", "pool_exit", "opt_return", "opt_raise"} =>
           SpillLines(Parts) <= Cardinality({i \in NonBlank(input) : i <= pos})
    /\ (pc = "opt_return" /\ Len(earlier) = 2) =>
           /\ count = earlier[1]
           /\ count = Cardinality(Values(input))

\* C19: a second call that found a file of the first call in temp_dir for
\* every partition has returned the first call's count, the files holding what
\* the first call left in them and no more.
C19_Witness ==
    /\ pc = "opt_return"
    /\ Len(earlier) = 2
    /\ \A p \in Parts : earlier[2][p] # <<>>
    /\ spill = earlier[2]
    /\ count = 2
    /\ earlier[1] = 2

\* C20: with the main process and the workers scheduled and every running
\* task ending, a run ends, its count written or in failure; the pool of an
\* optimized run has at least one worker, on one CPU with --workers 0 too; and
\* every task submitted is run to its end, its result then added to the total
\* unless the run fails.
C20_RunTerminates ==
    /\ [](engine = "optimized" => num_workers >= 1)
    /\ <>(pc \in {"done", "failed"})
    /\ \A p \in Parts :
           (task[p] = "queued") ~> (task[p] \in {"ok", "failed"})
    /\ \A p \in Parts :
           (task[p] = "queued") ~> (added[p] = 1 \/ exc # "none")

\* C20: an optimized run with a pool of one worker has ended with the results
\* of two tasks added to the count it wrote.
C20_Witness ==
    /\ pc = "done"
    /\ engine = "optimized"
    /\ num_workers = 1
    /\ \A p \in Parts : launched[p] = 1 /\ added[p] = 1
    /\ output = <<2>>

====
